---------------------------- MODULE Spec2Model ----------------------------
(***************************************************************************)
(* Model of the Silksong traditional-Chinese patcher.                      *)
(*                                                                         *)
(*   Spec           one tool session: the menu loop, run_modding with its  *)
(*                  stages (cleanup_old_backup, create_backup,             *)
(*                  process_all_assets, save_modified_files,               *)
(*                  replace_game_files), restore_backup, and what the user *)
(*                  does to the files between two menu choices.  Every     *)
(*                  file operation the code guards with try/except may     *)
(*                  raise.                                                 *)
(*   SpecRestoreOk  the same session on a file system on which the copies  *)
(*                  of restore_backup do not raise.                        *)
(*   SpecBackupManager  cleanup_old_backup and create_backup on every     *)
(*                  file system within the bounds.                         *)
(*   SpecRepack     one iteration of the loop of _process_bundle_assets    *)
(*                  over the shared-stream texture groups: the sort by     *)
(*                  offset, then _process_ress_texture_group, for every    *)
(*                  group, stream layout and catalogue within the bounds.  *)
(*   SpecAssets     process_all_assets asset by asset: the environment is  *)
(*                  initialised, the font bundle is classified, every      *)
(*                  classified asset is handed to its patcher, then the    *)
(*                  text assets and the title bundle are processed.  Any   *)
(*                  patcher may find no catalogue file or fail.            *)
(*   SpecMaterial   MaterialProcessor.process on every typetree within     *)
(*                  the bounds.                                            *)
(*   SpecSanitize   sanitize_filename on every name within the bounds.     *)
(*   SpecClassify   the classification loop of _process_bundle_assets on   *)
(*                  every list of objects within the bounds.               *)
(*   SpecFileWrapper  read_bytes, Position assignments and save on a       *)
(*                  FileWrapper, in every order.                           *)
(*   SpecPatchers   FontProcessor.process, process_embedded_texture,       *)
(*                  TextAssetProcessor.process and _process_title_bundle,  *)
(*                  each called once on every object and catalogue within  *)
(*                  the bounds.                                            *)
(***************************************************************************)
EXTENDS Integers, Sequences, FiniteSets, TLC

\* ------------------------------------------------------------------ bounds
MaxData == 1   \* distinct contents a user can give a live file
MaxOps  == 3   \* confirmed runs and user edits in one session
MaxSize == 2   \* bytes of one texture payload, as stored and as re-encoded
MaxFloats == 3 \* entries of a material's m_Floats
MaxName == 3   \* characters of a name given to sanitize_filename
MaxObjects == 2 \* objects of the font bundle handed to the classification
MaxStream == 3 \* bytes of the stream a FileWrapper wraps
MaxCalls == 3  \* calls made on one FileWrapper

\* ------------------------------------------------------------ file system
VARIABLES
    live,       \* the three game files: file -> content
    backupDir,  \* os.path.exists(BACKUP_FOLDER)
    backup,     \* the three files under Backup/: file -> content
    tempDir,    \* os.path.exists(TEMP_WORKSPACE_FOLDER)
    temp,       \* the three staged files under temp_workspace/
    env,        \* bundle_env / text_env / title_env of the BundleHandler
    pc,         \* where the session is: the menu, a stage of run_modding, ...
    ret,        \* what each stage of the current run returned
    reported,   \* the backup paths restore_backup printed as missing
    liveBefore, \* history: the live files when the handler now running
                \*   (run_modding or restore_backup) began
    snap,       \* history: the live files when create_backup last returned
                \*   True, while nothing else has touched Backup/ since
    ops         \* confirmed runs and user edits so far

fsVars == <<live, backupDir, backup, tempDir, temp, env, pc, ret, reported,
            liveBefore, snap, ops>>

\* ------------------------------------------- one shared-stream texture group
VARIABLES
    texture_group, \* textures_by_ress[resS_path]: the names of the group's
                   \*   textures, in the order the classification met them
    catalogue,     \* the .png files that exist in PNG_SOURCE_FOLDER
    tex,           \* name -> m_StreamData (offset, size) of the read object
    saved,         \* name -> m_StreamData as last written back by save()
    stream,        \* the bytes of bundle_file.files[resS_path]
    wrapped,       \* isinstance(bundle_file.files[resS_path], FileWrapper)
    orig,          \* history: tex as it was before the call
    rpc,           \* "ready": the group is classified; "returned"
    rret,          \* what _process_ress_texture_group returned
    raised,        \* history: where the exception that reached the except
                   \*   clause was raised, and for which texture
    installs       \* history: how often bundle_file.files[resS_path] has
                   \*   been assigned

rpVars == <<texture_group, catalogue, tex, saved, stream, wrapped, orig, rpc,
            rret, raised, installs>>

\* ------------------------------------------------------ process_all_assets
VARIABLES
    font_source,    \* the .json files that exist in FONT_SOURCE_FOLDER
    apc,            \* where process_all_assets is
    classified,     \* history: the assets of the font bundle the
                    \*   classification put into a bucket, in processing order
    todo,           \* the classified assets not yet handed to their patcher
    text_todo,      \* the objects of text_env not yet visited
    attempted,      \* history: the assets handed to a patcher so far
    containers,     \* history: the containers whose processing has begun
    bundle_success, \* `success` of _process_bundle_assets
    all_success,    \* `success` of process_all_assets
    aret,           \* what process_all_assets returned
    lookups,        \* history: <<asset name, catalogue file looked up>>
    missed,         \* history: some catalogue lookup found no file
    patcher_failed, \* history: some patcher returned False or raised
    errored         \* history: a patcher or a container failed for another
                    \*   reason than a missing catalogue file

paVars == <<font_source, apc, classified, todo, text_todo, attempted,
            containers, bundle_success, all_success, aret, lookups, missed,
            patcher_failed, errored>>

\* ------------------------------------------------ MaterialProcessor.process
VARIABLES
    tree,         \* the typetree read_typetree returned, as it is in memory
    orig_tree,    \* history: the typetree as read
    written,      \* the typetree save_typetree has stored in the object
    save_called,  \* save_typetree has been called
    mpc,          \* "ready", "returned"
    mret          \* what process returned

mtVars == <<tree, orig_tree, written, save_called, mpc, mret>>

\* --------------------------------------------------------- sanitize_filename
VARIABLES
    raw_name,    \* the argument, a sequence of characters
    safe_name,   \* the result
    spc          \* "ready", "returned"

snVars == <<raw_name, safe_name, spc>>

\* ----------------------------------------------- one patcher on one object
VARIABLES
    patcher,     \* "font", "texture", "text", "title": which patcher is called
    has_source,  \* os.path.exists of the patcher's catalogue file
    source,      \* what the catalogue file holds: key -> value
    form,        \* title bundle: "absent" (no target texture), "inline"
                 \*   (payload in the object), "stream" (payload in a .resS)
    fields,      \* the object as it is in memory: key -> value
    fields0,     \* history: the object before the call
    pstream,     \* title bundle: the .resS entry, "live" or "new"
    saves,       \* what save / save_typetree has been called with, in order
    ppc,         \* "ready", "returned"
    pret         \* what the patcher returned

ptVars == <<patcher, has_source, source, form, fields, fields0, pstream,
            saves, ppc, pret>>

\* ------------------------- the classification loop of _process_bundle_assets
VARIABLES
    objects,               \* all_objects: what _find_all_objects returned
    fonts_to_process,      \* positions in objects, in the order appended
    materials_to_process,
    textures_by_ress,      \* basename of the stream path -> positions
    embedded_textures,
    cpc                    \* "ready", "classified"

clVars == <<objects, fonts_to_process, materials_to_process, textures_by_ress,
            embedded_textures, cpc>>

\* ---------------------------------------------------------------- FileWrapper
VARIABLES
    w_stream,    \* the bytes of _stream
    w_position,  \* _stream.tell()
    w_op,        \* the last call: "none", "read_bytes", "seek", "save"
    w_arg,       \* its argument
    w_before,    \* history: Position before the last call
    w_returned,  \* what the last call returned
    w_raised,    \* the last call raised
    w_calls      \* calls so far

fwVars == <<w_stream, w_position, w_op, w_arg, w_before, w_returned,
            w_raised, w_calls>>

xtVars == <<ptVars, clVars, fwVars>>

unitVars == <<paVars, mtVars, snVars, xtVars>>

vars == <<fsVars, rpVars, unitVars>>

\* The managed files, in the order get_backup_paths, save_modified_files and
\* replace_game_files go through them.
Order == <<"bundle", "assets", "title">>
Files == {Order[i] : i \in 1..Len(Order)}
NumFiles == Len(Order)

\* A path holds no file, or a file with some content.  A content names the
\* file it was made for, the version the user gave it, and how many times
\* the patcher has rewritten it.
NoFile == << >>
File(f, v, g) == <<[file |-> f, ver |-> v, gen |-> g]>>
EmptyFile == <<[file |-> "none", ver |-> 0, gen |-> 0]>>
Exists(p) == p # NoFile
NoFiles == [f \in Files |-> NoFile]

\* UnityPy.load(path): the container read from a live file.
Load(p) == p[1]
\* The patchers mutate the loaded container in memory.
Patch(c) == [c EXCEPT !.gen = @ + 1]
\* env.file.save(): the bytes of the container as it is in memory.
Serialize(c) == <<c>>

NoRet == [cleanup |-> "none", backup |-> "none", process |-> "none",
          save |-> "none", replace |-> "none", restore |-> "none"]
Bool2Ret(b) == IF b THEN "true" ELSE "false"

\* The files the first k-1 iterations of a loop over Order have handled.
Before(k) == {Order[j] : j \in 1..(k - 1)}
\* A loop over the three files stops in iteration 1..NumFiles, or runs through.
NoFault == NumFiles + 1
FaultPoints == 1..NoFault

InitFs ==
    /\ live = [f \in Files |-> File(f, 0, 0)]
    /\ backupDir = FALSE
    /\ backup = NoFiles
    /\ tempDir = FALSE
    /\ temp = NoFiles
    /\ env = NoFiles
    /\ pc = "menu"
    /\ ret = NoRet
    /\ reported = {}
    /\ liveBefore = NoFiles
    /\ snap = NoFiles
    /\ ops = 0

NotRaised == [at |-> "none", member |-> "none"]

\* No texture group is being processed.
IdleGroup ==
    /\ texture_group = << >>
    /\ tex = << >>
    /\ saved = << >>
    /\ stream = << >>
    /\ wrapped = FALSE
    /\ orig = << >>
    /\ rpc = "idle"
    /\ rret = "none"
    /\ raised = NotRaised
    /\ installs = 0

IdleRepack == IdleGroup /\ catalogue = {}

\* process_all_assets is not running.
IdleAssets ==
    /\ font_source = {}
    /\ apc = "idle"
    /\ classified = << >>
    /\ todo = << >>
    /\ text_todo = << >>
    /\ attempted = << >>
    /\ containers = << >>
    /\ bundle_success = TRUE
    /\ all_success = TRUE
    /\ aret = "none"
    /\ lookups = {}
    /\ missed = FALSE
    /\ patcher_failed = FALSE
    /\ errored = FALSE

NoTree == [has_props |-> FALSE, has_floats |-> FALSE, m_Floats |-> << >>]

\* No material is being processed.
IdleMaterial ==
    /\ tree = NoTree
    /\ orig_tree = NoTree
    /\ written = NoTree
    /\ save_called = FALSE
    /\ mpc = "idle"
    /\ mret = "none"

\* sanitize_filename is not being called.
IdleSanitize ==
    /\ raw_name = << >>
    /\ safe_name = << >>
    /\ spc = "idle"

\* No patcher is being called on its own.
IdlePatchers ==
    /\ patcher = "none"
    /\ has_source = FALSE
    /\ source = << >>
    /\ form = "absent"
    /\ fields = << >>
    /\ fields0 = << >>
    /\ pstream = "live"
    /\ saves = << >>
    /\ ppc = "idle"
    /\ pret = "none"

\* No classification is running.
IdleClassify ==
    /\ objects = << >>
    /\ fonts_to_process = << >>
    /\ materials_to_process = << >>
    /\ textures_by_ress = << >>
    /\ embedded_textures = << >>
    /\ cpc = "idle"

\* No FileWrapper is in use.
IdleFileWrapper ==
    /\ w_stream = << >>
    /\ w_position = 0
    /\ w_op = "none"
    /\ w_arg = 0
    /\ w_before = 0
    /\ w_returned = << >>
    /\ w_raised = FALSE
    /\ w_calls = 0

IdleExtra == IdlePatchers /\ IdleClassify /\ IdleFileWrapper

IdleUnits == IdleAssets /\ IdleMaterial /\ IdleSanitize /\ IdleExtra

Init == InitFs /\ IdleRepack /\ IdleUnits


\* --------------------------------------------------------------- run_modding
\* run_modding up to its try block: validate_environment wants the three
\* live files to exist, the user has to answer 'y', and
\* initialize_bundle_handler makes a fresh BundleHandler.
ValidEnvironment == \A f \in Files : Exists(live[f])

RunModdingBegin ==
    /\ pc = "menu"
    /\ ops < MaxOps
    /\ ops' = ops + 1
    /\ \E confirm \in BOOLEAN :
        /\ ValidEnvironment /\ confirm
        /\ pc' = "cleanup"
        /\ env' = NoFiles
    /\ ret' = NoRet
    /\ liveBefore' = live
    /\ reported' = {}
    /\ UNCHANGED <<live, backupDir, backup, tempDir, temp, snap>>
    /\ UNCHANGED <<rpVars, unitVars>>

RunModdingRefused ==
    /\ pc = "menu"
    /\ \E confirm \in BOOLEAN :
        /\ ~(ValidEnvironment /\ confirm)
        /\ pc' = "done"
    /\ ret' = NoRet
    /\ reported' = {}
    /\ UNCHANGED <<live, backupDir, backup, tempDir, temp, env, liveBefore,
                   snap, ops>>
    /\ UNCHANGED <<rpVars, unitVars>>

\* Faulty variant of AfterStage: run_modding goes on whatever the stage returned.
AfterStageIgnoringResult(ok, next) == next

\* What run_modding does with a stage's result: go on, or return.
AfterStage(ok, next) == IF ok THEN next ELSE "done"

\* Faulty variant of CleanupOldBackup: it returns True without removing anything.
CleanupOldBackupRemovesNothing ==
    /\ pc = "cleanup"
    /\ ret' = [ret EXCEPT !.cleanup = "true"]
    /\ pc' = "backup"
    /\ UNCHANGED <<live, backupDir, backup, tempDir, temp, env, reported,
                   liveBefore, snap, ops>>
    /\ UNCHANGED <<rpVars, unitVars>>

\* cleanup_old_backup, and run_modding going on whatever it returns.
\* shutil.rmtree either removes the whole tree, or raises having removed
\* some of the files in it.
CleanupOldBackup ==
    /\ pc = "cleanup"
    /\ \/ /\ ~backupDir
          /\ ret' = [ret EXCEPT !.cleanup = "true"]
          /\ UNCHANGED <<backupDir, backup, snap>>
       \/ /\ backupDir
          /\ backupDir' = FALSE
          /\ backup' = NoFiles
          /\ snap' = NoFiles
          /\ ret' = [ret EXCEPT !.cleanup = "true"]
       \/ /\ backupDir
          /\ \E gone \in SUBSET {f \in Files : Exists(backup[f])} :
                backup' = [f \in Files |->
                              IF f \in gone THEN NoFile ELSE backup[f]]
          /\ backupDir' = TRUE
          /\ snap' = NoFiles
          /\ ret' = [ret EXCEPT !.cleanup = "false"]
    /\ pc' = "backup"
    /\ UNCHANGED <<live, tempDir, temp, env, reported, liveBefore, ops>>
    /\ UNCHANGED <<rpVars, unitVars>>

\* Faulty variant of BackupAfterCreate: a file already in the Backup folder is
\* kept, not overwritten by the copy.
BackupAfterCreateKeepingOld(k) ==
    [f \in Files |->
        IF f \in Before(k) /\ Exists(live[f]) /\ ~Exists(backup[f])
        THEN live[f] ELSE backup[f]]

\* Faulty variant of BackupAfterCreate: the last pair of get_backup_paths is
\* left out of the loop.
BackupAfterCreateWithoutLast(k) ==
    [f \in Files |->
        IF f \in Before(k) /\ Exists(live[f]) /\ f # Order[NumFiles]
        THEN live[f] ELSE backup[f]]

\* create_backup: the loop over get_backup_paths stops in iteration k when
\* makedirs or copy2 raises there (k = NoFault: it runs through).  A pair
\* whose source is missing is skipped.
BackupAfterCreate(k) ==
    [f \in Files |->
        IF f \in Before(k) /\ Exists(live[f]) THEN live[f] ELSE backup[f]]

CreateBackup ==
    /\ pc = "backup"
    /\ \E k \in FaultPoints, inCopy \in BOOLEAN :
        /\ k = NoFault => inCopy
        /\ backup' = BackupAfterCreate(k)
        /\ backupDir' = (backupDir \/ k > 1 \/ inCopy)
        /\ ret' = [ret EXCEPT !.backup = Bool2Ret(k = NoFault)]
        /\ snap' = IF k = NoFault THEN live ELSE NoFiles
        /\ pc' = AfterStage(k = NoFault, "process")
    /\ UNCHANGED <<live, tempDir, temp, env, reported, liveBefore, ops>>
    /\ UNCHANGED <<rpVars, unitVars>>

\* process_all_assets.  _initialize_unity_environment empties and recreates
\* the temp workspace and loads the three containers; when it raises,
\* process_all_assets returns False.  Otherwise the three containers are
\* patched in memory: which of them a patcher changed, and whether every
\* bucket succeeded, is decided by the catalogue and the containers.
ProcessAllAssets ==
    /\ pc = "process"
    /\ \/ /\ tempDir        \* rmtree raises
          /\ \E gone \in SUBSET {f \in Files : Exists(temp[f])} :
                temp' = [f \in Files |->
                            IF f \in gone THEN NoFile ELSE temp[f]]
          /\ UNCHANGED <<tempDir, env>>
          /\ ret' = [ret EXCEPT !.process = "false"]
          /\ pc' = "done"
       \/ /\ tempDir' = TRUE  \* UnityPy.load raises
          /\ temp' = NoFiles
          /\ UNCHANGED env
          /\ ret' = [ret EXCEPT !.process = "false"]
          /\ pc' = "done"
       \/ /\ tempDir' = TRUE
          /\ temp' = NoFiles
          /\ \E changed \in SUBSET Files, success \in BOOLEAN :
              /\ env' = [f \in Files |->
                            IF f \in changed THEN <<Patch(Load(live[f]))>>
                                             ELSE <<Load(live[f])>>]
              /\ ret' = [ret EXCEPT !.process = Bool2Ret(success)]
              /\ pc' = AfterStage(success, "save")
    /\ UNCHANGED <<live, backupDir, backup, reported, liveBefore, snap, ops>>
    /\ UNCHANGED <<rpVars, unitVars>>

\* Faulty variant of SaveModifiedFiles: the containers are written to the live paths.
SaveModifiedFilesInPlace ==
    /\ pc = "save"
    /\ \E k \in FaultPoints :
        /\ live' = [f \in Files |->
                        IF f \in Before(k) THEN Serialize(env[f][1])
                                            ELSE live[f]]
        /\ ret' = [ret EXCEPT !.save = Bool2Ret(k = NoFault)]
        /\ pc' = IF k = NoFault THEN "replace" ELSE "done"
    /\ UNCHANGED <<backupDir, backup, tempDir, temp, env, reported,
                   liveBefore, snap, ops>>
    /\ UNCHANGED <<rpVars, unitVars>>

\* save_modified_files: each container is opened under the temp workspace
\* and written with env.file.save().  Iteration k raises either in open
\* (nothing is created) or in save() (the opened file stays empty).
StagedAfterSave(k, opened) ==
    [f \in Files |->
        IF f \in Before(k) THEN Serialize(env[f][1])
        ELSE IF k <= NumFiles /\ f = Order[k] /\ opened THEN EmptyFile
        ELSE temp[f]]

SaveModifiedFiles ==
    /\ pc = "save"
    /\ \E k \in FaultPoints, opened \in BOOLEAN :
        /\ ~tempDir => (k = 1 /\ ~opened)
        /\ k = NoFault => opened
        /\ temp' = StagedAfterSave(k, opened)
        /\ ret' = [ret EXCEPT !.save = Bool2Ret(k = NoFault)]
        /\ pc' = AfterStage(k = NoFault, "replace")
    /\ UNCHANGED <<live, backupDir, backup, tempDir, env, reported, liveBefore,
                   snap, ops>>
    /\ UNCHANGED <<rpVars, unitVars>>

\* Faulty variant of ReplaceGameFiles: the temp workspace is removed after the
\* third move instead of in a finally clause.
ReplaceGameFilesNoFinally ==
    /\ pc = "replace"
    /\ \E k \in FaultPoints :
        /\ \A f \in Before(k) : Exists(temp[f])
        /\ live' = [f \in Files |-> IF f \in Before(k) THEN temp[f]
                                                        ELSE live[f]]
        /\ IF k = NoFault
              THEN tempDir' = FALSE /\ temp' = NoFiles
              ELSE /\ tempDir' = tempDir
                   /\ temp' = [f \in Files |->
                                  IF f \in Before(k) THEN NoFile ELSE temp[f]]
        /\ ret' = [ret EXCEPT !.replace = Bool2Ret(k = NoFault)]
    /\ pc' = "done"
    /\ UNCHANGED <<backupDir, backup, env, reported, liveBefore, snap, ops>>
    /\ UNCHANGED <<rpVars, unitVars>>

\* replace_game_files: three shutil.move in a row, the first that raises
\* ends the try block; the finally clause removes the temp workspace, and
\* an rmtree that raises there replaces the return value by the exception
\* (run_modding's except clause catches it).
LiveAfterReplace(k) ==
    [f \in Files |-> IF f \in Before(k) THEN temp[f] ELSE live[f]]

ReplaceGameFiles ==
    /\ pc = "replace"
    /\ \E k \in FaultPoints :
        /\ \A f \in Before(k) : Exists(temp[f])
        /\ live' = LiveAfterReplace(k)
        /\ \/ /\ tempDir' = FALSE
              /\ temp' = NoFiles
              /\ ret' = [ret EXCEPT !.replace = Bool2Ret(k = NoFault)]
           \/ /\ tempDir
              /\ tempDir' = TRUE
              /\ \E gone \in SUBSET (Files \ Before(k)) :
                    temp' = [f \in Files |->
                                IF f \in Before(k) \cup gone THEN NoFile
                                                             ELSE temp[f]]
              /\ ret' = [ret EXCEPT !.replace = "raised"]
    /\ pc' = "done"
    /\ UNCHANGED <<backupDir, backup, env, reported, liveBefore, snap, ops>>
    /\ UNCHANGED <<rpVars, unitVars>>

\* ------------------------------------------------------------ restore_backup
MissingBackups == {f \in Files : ~Exists(backup[f])}

\* Faulty variant of LiveAfterRestore: copy2 is called with its arguments swapped,
\* so that the live files are read, not written.
LiveAfterRestoreSwapped(k) == live

LiveAfterRestore(k) ==
    [f \in Files |-> IF f \in Before(k) THEN backup[f] ELSE live[f]]

\* Faulty variant of RestoreBackup: no completeness check, the backup files that
\* exist are copied.
RestoreBackupUnchecked ==
    /\ pc = "menu"
    /\ \/ /\ ~backupDir
          /\ reported' = {}
          /\ ret' = [NoRet EXCEPT !.restore = "false"]
          /\ UNCHANGED live
       \/ /\ backupDir
          /\ reported' = MissingBackups
          /\ live' = [f \in Files |->
                          IF Exists(backup[f]) THEN backup[f] ELSE live[f]]
          /\ ret' = [NoRet EXCEPT !.restore = Bool2Ret(MissingBackups = {})]
    /\ pc' = "done"
    /\ liveBefore' = live
    /\ UNCHANGED <<backupDir, backup, tempDir, temp, env, snap, ops>>
    /\ UNCHANGED <<rpVars, unitVars>>

\* restore_backup when no copy raises: no Backup folder, an incomplete
\* backup (every missing path is printed), or the three copies.
RestoreBackup ==
    /\ pc = "menu"
    /\ \/ /\ ~backupDir
          /\ reported' = {}
          /\ ret' = [NoRet EXCEPT !.restore = "false"]
          /\ UNCHANGED live
       \/ /\ backupDir
          /\ MissingBackups # {}
          /\ reported' = MissingBackups
          /\ ret' = [NoRet EXCEPT !.restore = "false"]
          /\ UNCHANGED live
       \/ /\ backupDir
          /\ MissingBackups = {}
          /\ reported' = {}
          /\ live' = LiveAfterRestore(NoFault)
          /\ ret' = [NoRet EXCEPT !.restore = "true"]
    /\ pc' = "done"
    /\ liveBefore' = live
    /\ UNCHANGED <<backupDir, backup, tempDir, temp, env, snap, ops>>
    /\ UNCHANGED <<rpVars, unitVars>>

\* restore_backup when the copy2 of iteration k raises.
RestoreBackupRaises ==
    /\ pc = "menu"
    /\ backupDir
    /\ MissingBackups = {}
    /\ \E k \in 1..NumFiles : live' = LiveAfterRestore(k)
    /\ reported' = {}
    /\ ret' = [NoRet EXCEPT !.restore = "false"]
    /\ pc' = "done"
    /\ liveBefore' = live
    /\ UNCHANGED <<backupDir, backup, tempDir, temp, env, snap, ops>>
    /\ UNCHANGED <<rpVars, unitVars>>

\* run_main_loop: the handler has returned, the user presses Enter and the
\* screen is cleared.  The handler's results are gone with it, and nothing
\* reads the old BundleHandler's containers again (the next run makes a new
\* one).
ReturnToMenu ==
    /\ pc = "done"
    /\ pc' = "menu"
    /\ ret' = NoRet
    /\ reported' = {}
    /\ env' = NoFiles
    /\ liveBefore' = NoFiles
    /\ UNCHANGED <<live, backupDir, backup, tempDir, temp, snap, ops>>
    /\ UNCHANGED <<rpVars, unitVars>>

\* ------------------------------------------------------------------ the user
\* Between two menu choices the user (or a game update) may rewrite or
\* delete a live file, or delete a file of the backup.
ModifyLive ==
    /\ pc = "menu"
    /\ ops < MaxOps
    /\ ops' = ops + 1
    /\ \E f \in Files, v \in 1..MaxData :
        live' = [live EXCEPT ![f] = File(f, v, 0)]
    /\ UNCHANGED <<backupDir, backup, tempDir, temp, env, pc, ret, reported,
                   liveBefore, snap>>
    /\ UNCHANGED <<rpVars, unitVars>>

DeleteLive ==
    /\ pc = "menu"
    /\ ops < MaxOps
    /\ ops' = ops + 1
    /\ \E f \in Files :
        /\ Exists(live[f])
        /\ live' = [live EXCEPT ![f] = NoFile]
    /\ UNCHANGED <<backupDir, backup, tempDir, temp, env, pc, ret, reported,
                   liveBefore, snap>>
    /\ UNCHANGED <<rpVars, unitVars>>

DeleteBackupFile ==
    /\ pc = "menu"
    /\ ops < MaxOps
    /\ ops' = ops + 1
    /\ \E f \in Files :
        /\ Exists(backup[f])
        /\ backup' = [backup EXCEPT ![f] = NoFile]
    /\ snap' = NoFiles
    /\ UNCHANGED <<live, backupDir, tempDir, temp, env, pc, ret, reported,
                   liveBefore>>
    /\ UNCHANGED <<rpVars, unitVars>>

NextRestoreOk ==
    \/ RunModdingBegin
    \/ RunModdingRefused
    \/ CleanupOldBackup
    \/ CreateBackup
    \/ ProcessAllAssets
    \/ SaveModifiedFiles
    \/ ReplaceGameFiles
    \/ RestoreBackup
    \/ ReturnToMenu
    \/ ModifyLive
    \/ DeleteLive
    \/ DeleteBackupFile

Next == NextRestoreOk \/ RestoreBackupRaises

Spec == Init /\ [][Next]_vars


SpecRestoreOk == Init /\ [][NextRestoreOk]_vars

\* ---------------------------------------------------- the backup manager alone
\* validate_backup: the Backup folder and each of the three backup files exist.
ValidateBackup == backupDir /\ MissingBackups = {}

\* cleanup_old_backup followed by create_backup, as run_modding calls them
\* after the confirmation prompt, on every file system within the bounds: a
\* live file may have gone since validate_environment looked at it, and an
\* earlier backup may be there in full or in part.
InitBackupManager ==
    /\ \E present \in SUBSET Files :
          live = [f \in Files |-> IF f \in present THEN File(f, 0, 0) ELSE NoFile]
    /\ backupDir \in BOOLEAN
    /\ \E old \in SUBSET Files :
          /\ ~backupDir => old = {}
          /\ backup = [f \in Files |-> IF f \in old THEN File(f, 0, 0) ELSE NoFile]
    /\ tempDir = FALSE
    /\ temp = NoFiles
    /\ env = NoFiles
    /\ pc = "cleanup"
    /\ ret = NoRet
    /\ reported = {}
    /\ liveBefore = live
    /\ snap = NoFiles
    /\ ops = 1
    /\ IdleRepack
    /\ IdleUnits

NextBackupManager == CleanupOldBackup \/ CreateBackup

SpecBackupManager == InitBackupManager /\ [][NextBackupManager]_vars

\* --------------------------------------- _process_ress_texture_group
\* The Texture2D names the classification lets through.
TextureNames == <<"chinese_body Atlas", "chinese_body_bold Atlas",
                  "do_not_use_chinese_body_bold Atlas">>
TextureNameSet == {TextureNames[i] : i \in 1..Len(TextureNames)}

\* The alias applied before the catalogue lookup.
SourceAssetName(asset_name) ==
    IF asset_name = "do_not_use_chinese_body_bold Atlas"
        THEN "chinese_body_bold Atlas"
        ELSE asset_name

\* sanitize_filename on the names above: every character of them is kept,
\* and the space becomes an underscore.
SafeName(name) ==
    CASE name = "chinese_body Atlas" -> "chinese_body_Atlas"
      [] name = "chinese_body_bold Atlas" -> "chinese_body_bold_Atlas"
      [] name = "do_not_use_chinese_body_bold Atlas" ->
                "do_not_use_chinese_body_bold_Atlas"

\* The file looked up under PNG_SOURCE_FOLDER (without its folder).
SourcePng(asset_name) == SafeName(SourceAssetName(asset_name))
PngFiles == {SourcePng(n) : n \in TextureNameSet}
HasPng(asset_name) == SourcePng(asset_name) \in catalogue

Range(seq) == {seq[i] : i \in 1..Len(seq)}

\* The sequences of distinct texture names.
NameSeqs ==
    {q \in UNION {[1..n -> TextureNameSet] : n \in 1..Len(TextureNames)} :
        \A i, j \in 1..Len(q) : i # j => q[i] # q[j]}

\* n bytes of the payload of texture `name`: as stored in the game's stream
\* ("old") or as encoded from the catalogue image ("new").
Payload(kind, name, n) == [i \in 1..n |-> <<kind, name>>]

RECURSIVE SumSizes(_, _)
SumSizes(seq, size) ==
    IF seq = << >> THEN 0
    ELSE size[seq[Len(seq)]] + SumSizes(SubSeq(seq, 1, Len(seq) - 1), size)

RECURSIVE Concat(_, _, _)
Concat(kind, seq, size) ==
    IF seq = << >> THEN << >>
    ELSE Concat(kind, SubSeq(seq, 1, Len(seq) - 1), size)
            \o Payload(kind, seq[Len(seq)], size[seq[Len(seq)]])

IndexOf(seq, x) == CHOOSE i \in 1..Len(seq) : seq[i] = x

\* A bundle as loaded: the group's textures lie one after the other in the
\* stream, in any order, each with a payload of 1..MaxSize bytes, and every
\* m_StreamData addresses its texture's payload.
InitRepack ==
    /\ InitFs
    /\ IdleUnits
    /\ texture_group \in NameSeqs
    /\ catalogue \in SUBSET PngFiles
    /\ \E place \in NameSeqs :
        /\ Range(place) = Range(texture_group)
        /\ \E size \in [Range(place) -> 1..MaxSize] :
            /\ tex = [n \in Range(place) |->
                        [offset |-> SumSizes(SubSeq(place, 1,
                                                IndexOf(place, n) - 1), size),
                         size |-> size[n]]]
            /\ stream = Concat("old", place, size)
    /\ saved = tex
    /\ orig = tex
    /\ wrapped = FALSE
    /\ rpc = "ready"
    /\ rret = "none"
    /\ raised = NotRaised
    /\ installs = 0

\* Faulty variant of SortByOffset: the group is processed in the order the
\* classification met its textures.
SortByOffsetMissing(group) == group

\* texture_group.sort(key=lambda x: int(x.m_StreamData.offset)): ascending and
\* stable.
RECURSIVE SortByOffset(_)
SortByOffset(group) ==
    IF group = << >> THEN << >>
    ELSE LET last == group[Len(group)]
             rest == SortByOffset(SubSeq(group, 1, Len(group) - 1))
             k == Cardinality({i \in 1..Len(rest) :
                        tex[rest[i]].offset <= tex[last].offset})
         IN SubSeq(rest, 1, k) \o <<last>> \o SubSeq(rest, k + 1, Len(rest))

\* Faulty variant of NewDatas: the os.path.exists test is left out.
NewDatasUnchecked(group) == group

\* new_datas: the textures of the group that have a catalogue image, in the
\* group's order.
NewDatas(group) == SelectSeq(group, HasPng)

\* data_dict["new_offset"] of the i-th entry: current_offset when it is laid
\* out.
NewOffset(new_datas, len, i) == SumSizes(SubSeq(new_datas, 1, i - 1), len)

\* m_StreamData after the metadata loop has assigned the first `done`
\* entries of new_datas.
MetadataAfter(md, new_datas, len, done) ==
    [n \in DOMAIN md |->
        IF \E i \in 1..done : new_datas[i] = n
            THEN [offset |-> NewOffset(new_datas, len, IndexOf(new_datas, n)),
                  size |-> len[n]]
            ELSE md[n]]

\* Faulty variant of ProcessRessTextureGroup: the stream entry is replaced
\* inside the encode loop, after every texture encoded.
ProcessRessTextureGroupInstallEarly ==
    /\ rpc = "ready"
    /\ LET group == SortByOffset(texture_group)
           new_datas == NewDatas(group)
           n == Len(new_datas)
       IN /\ texture_group' = group
          /\ \/ /\ n = 0      \* no catalogue image: return True
                /\ rret' = "true"
                /\ raised' = NotRaised
                /\ UNCHANGED <<tex, saved, stream, wrapped, installs>>
             \/ /\ n > 0      \* Image.open or image_to_texture2d raises
                /\ \E i \in 1..n, len \in [Range(new_datas) -> 1..MaxSize] :
                    /\ raised' = [at |-> "encode", member |-> new_datas[i]]
                    /\ stream' = IF i = 1 THEN stream
                                  ELSE Concat("new", SubSeq(new_datas, 1, i - 1),
                                              len)
                    /\ wrapped' = (wrapped \/ i > 1)
                    /\ installs' = installs + (i - 1)
                /\ rret' = "false"
                /\ UNCHANGED <<tex, saved>>
             \/ /\ n > 0
                /\ \E len \in [Range(new_datas) -> 1..MaxSize],
                      j \in 1..(n + 1) :
                    /\ stream' = Concat("new", new_datas, len)
                    /\ wrapped' = TRUE
                    /\ installs' = installs + 1
                    /\ tex' = MetadataAfter(tex, new_datas, len,
                                            IF j > n THEN n ELSE j)
                    /\ saved' = MetadataAfter(saved, new_datas, len, j - 1)
                    /\ rret' = Bool2Ret(j > n)
                    /\ raised' = IF j > n THEN NotRaised
                                  ELSE [at |-> "save",
                                        member |-> new_datas[j]]
    /\ rpc' = "returned"
    /\ UNCHANGED <<catalogue, orig>>
    /\ UNCHANGED <<fsVars, unitVars>>


\* One iteration of the loop over textures_by_ress: the sort, then
\* _process_ress_texture_group.  len[n] is len(image_binary) of texture n, at
\* least one byte.  The encode loop has no handler of its own: when
\* Image.open or image_to_texture2d raises for the i-th texture that has an
\* image, the exception goes to the except clause of the function.  The
\* metadata loop stops in iteration j when save() raises there, after the
\* fields of the j-th object have been assigned.
ProcessRessTextureGroup ==
    /\ rpc = "ready"
    /\ LET group == SortByOffset(texture_group)
           new_datas == NewDatas(group)
           n == Len(new_datas)
       IN /\ texture_group' = group
          /\ \/ /\ n = 0      \* no catalogue image: return True
                /\ rret' = "true"
                /\ raised' = NotRaised
                /\ UNCHANGED <<tex, saved, stream, wrapped, installs>>
             \/ /\ n > 0      \* Image.open or image_to_texture2d raises
                /\ \E i \in 1..n :
                      raised' = [at |-> "encode", member |-> new_datas[i]]
                /\ rret' = "false"
                /\ UNCHANGED <<tex, saved, stream, wrapped, installs>>
             \/ /\ n > 0
                /\ \E len \in [Range(new_datas) -> 1..MaxSize],
                      j \in 1..(n + 1) :
                    /\ stream' = Concat("new", new_datas, len)
                    /\ wrapped' = TRUE
                    /\ installs' = installs + 1
                    /\ tex' = MetadataAfter(tex, new_datas, len,
                                            IF j > n THEN n ELSE j)
                    /\ saved' = MetadataAfter(saved, new_datas, len, j - 1)
                    /\ rret' = Bool2Ret(j > n)
                    /\ raised' = IF j > n THEN NotRaised
                                  ELSE [at |-> "save",
                                        member |-> new_datas[j]]
    /\ rpc' = "returned"
    /\ UNCHANGED <<catalogue, orig>>
    /\ UNCHANGED <<fsVars, unitVars>>

SpecRepack == InitRepack /\ [][ProcessRessTextureGroup]_vars

\* ------------------------------------------------------ process_all_assets
\* The names the classification of _process_bundle_assets lets through.
FontNames == <<"chinese_body", "chinese_body_bold",
               "do_not_use_chinese_body_bold">>
MaterialNames == <<"simsun_tmpro Material", "chinese_body_bold Material",
                   "do_not_use_chinese_body_bold Material">>

\* Faulty variant of FontSourceName: the name is looked up as it is.
FontSourceNameNoAlias(asset_name) == asset_name

\* The alias FontProcessor.process applies before its catalogue lookup.
FontSourceName(asset_name) ==
    IF asset_name = "do_not_use_chinese_body_bold"
        THEN "chinese_body_bold"
        ELSE asset_name

\* The files FONT_SOURCE_FOLDER can hold for these fonts (without ".json").
FontFiles == {FontSourceName(n) : n \in Range(FontNames)}
HasJson(asset_name) == FontSourceName(asset_name) \in font_source

\* TextAssetProcessor.TEXT_TARGET_ASSETS.
TextTargetAssets ==
    {"ZH_Achievements", "ZH_AutoSaveNames", "ZH_Belltown", "ZH_Bonebottom",
     "ZH_Caravan", "ZH_City", "ZH_Coral", "ZH_Crawl", "ZH_Credits List",
     "ZH_Deprecated", "ZH_Dust", "ZH_Enclave", "ZH_Error", "ZH_Fast Travel",
     "ZH_Forge", "ZH_General", "ZH_Greymoor", "ZH_Inspect", "ZH_Journal",
     "ZH_Lore", "ZH_MainMenu", "ZH_Map Zones", "ZH_Peak", "ZH_Pilgrims",
     "ZH_Prompts", "ZH_Quests", "ZH_Shellwood", "ZH_Shop", "ZH_Song",
     "ZH_Titles", "ZH_Tools", "ZH_UI", "ZH_Under", "ZH_Wanderers",
     "ZH_Weave", "ZH_Wilds"}

\* The TextAsset objects of text_env, in the order of text_env.objects: two
\* of the target list and one that is not on it.
TextObjects == <<"ZH_General", "EN_General", "ZH_UI">>

\* TARGET_ASSET_NAME of _process_title_bundle.
TitleAssetName == "sactx-0-1024x1024-BC7-Title-228dda81"

\* Where a Texture2D of the font bundle keeps its payload: the bundle has no
\* such texture, the payload is embedded in the object, or it lies in one of
\* the bundle's .resS streams.
StreamPaths == <<"a.resS", "b.resS">>
Places == {"absent", "embedded"} \cup Range(StreamPaths)

\* The subsequences of seq.
SubSeqsOf(seq) ==
    {LET In(x) == x \in S IN SelectSeq(seq, In) : S \in SUBSET Range(seq)}

\* One asset handed to a patcher: a texture group (named by its stream, with
\* its members), or a single asset.
Item(kind, nm, members) == [kind |-> kind, name |-> nm, members |-> members]
Items(kind, names) == [i \in 1..Len(names) |-> Item(kind, names[i], << >>)]

\* Faulty variant of WorkList: the materials are processed first.
WorkListMaterialsFirst(where, fonts, materials) ==
    LET MembersAt(p) == LET At(n) == where[n] = p
                        IN SelectSeq(TextureNames, At)
        NonEmpty(p) == MembersAt(p) # << >>
        paths == SelectSeq(StreamPaths, NonEmpty)
    IN Items("material", materials)
        \o [i \in 1..Len(paths) |-> Item("group", paths[i], MembersAt(paths[i]))]
        \o Items("embedded", MembersAt("embedded"))
        \o Items("font", fonts)

\* The four buckets in the order _process_bundle_assets goes through them:
\* texture groups, embedded textures, fonts, materials.
WorkList(where, fonts, materials) ==
    LET MembersAt(p) == LET At(n) == where[n] = p
                        IN SelectSeq(TextureNames, At)
        NonEmpty(p) == MembersAt(p) # << >>
        paths == SelectSeq(StreamPaths, NonEmpty)
    IN [i \in 1..Len(paths) |-> Item("group", paths[i], MembersAt(paths[i]))]
        \o Items("embedded", MembersAt("embedded"))
        \o Items("font", fonts)
        \o Items("material", materials)

\* process_all_assets is about to be called, with any set of atlas images and
\* font files in the catalogue folders.
InitAssets ==
    /\ InitFs
    /\ IdleGroup
    /\ catalogue \in SUBSET PngFiles
    /\ font_source \in SUBSET FontFiles
    /\ apc = "start"
    /\ classified = << >>
    /\ todo = << >>
    /\ text_todo = << >>
    /\ attempted = << >>
    /\ containers = << >>
    /\ bundle_success = TRUE
    /\ all_success = TRUE
    /\ aret = "none"
    /\ lookups = {}
    /\ missed = FALSE
    /\ patcher_failed = FALSE
    /\ errored = FALSE
    /\ IdleMaterial
    /\ IdleSanitize
    /\ IdleExtra

\* _initialize_unity_environment: it returns True, or something in it raises
\* and process_all_assets returns False at once.
InitializeUnityEnvironment ==
    /\ apc = "start"
    /\ \/ /\ apc' = "classify"
          /\ UNCHANGED <<aret, errored>>
       \/ /\ apc' = "done"
          /\ aret' = "false"
          /\ errored' = TRUE
    /\ UNCHANGED <<font_source, classified, todo, text_todo, attempted,
                   containers, bundle_success, all_success, lookups, missed,
                   patcher_failed>>
    /\ UNCHANGED <<fsVars, rpVars, mtVars, snVars, xtVars>>

\* The first half of _process_bundle_assets: the objects of the font bundle
\* are found and put into the four buckets: any placement of the three
\* atlases, any of the three fonts, and the three materials or none.  When
\* _find_all_objects raises,
\* _process_bundle_assets returns False and process_all_assets goes on with
\* the text assets.
ClassifyBundleAssets ==
    /\ apc = "classify"
    /\ \/ /\ \E where \in [TextureNameSet -> Places],
                fonts \in SubSeqsOf(FontNames),
                materials \in {<< >>, MaterialNames} :
                /\ classified' = WorkList(where, fonts, materials)
                /\ todo' = WorkList(where, fonts, materials)
          /\ apc' = "bundle"
          /\ containers' = <<"bundle">>
          /\ UNCHANGED <<text_todo, all_success, errored>>
       \/ /\ apc' = "text"
          /\ containers' = <<"bundle", "text">>
          /\ text_todo' = TextObjects
          /\ all_success' = FALSE
          /\ errored' = TRUE
          /\ UNCHANGED <<classified, todo>>
    /\ bundle_success' = TRUE
    /\ UNCHANGED <<font_source, attempted, aret, lookups, missed,
                   patcher_failed>>
    /\ UNCHANGED <<fsVars, rpVars, mtVars, snVars, xtVars>>

\* Faulty variant of Remaining: the first failure ends the loops.
RemainingUntilFailure(ok, rest) == IF ok THEN rest ELSE << >>

\* What the loops of _process_bundle_assets still go through after a patcher
\* has returned ok: a False only clears `success`.
Remaining(ok, rest) == rest

\* One iteration of one of the four loops of _process_bundle_assets: the
\* patcher of the next asset returned ok, after looking up the files
\* `looked`; miss: a file it looked up does not exist; error: it caught an
\* exception.
Handled(ok, looked, miss, error) ==
    /\ attempted' = Append(attempted, Head(todo))
    /\ todo' = Remaining(ok, Tail(todo))
    /\ bundle_success' = (bundle_success /\ ok)
    /\ lookups' = lookups \cup looked
    /\ missed' = (missed \/ miss)
    /\ patcher_failed' = (patcher_failed \/ ~ok)
    /\ errored' = (errored \/ error)
    /\ UNCHANGED <<font_source, apc, classified, text_todo, containers,
                   all_success, aret>>
    /\ UNCHANGED <<fsVars, rpVars, mtVars, snVars, xtVars>>

NextIs(kind) == apc = "bundle" /\ todo # << >> /\ Head(todo).kind = kind

\* The catalogue lookups of the first k members of a group.
GroupLookups(members, k) == {<<members[i], SourcePng(members[i])>> : i \in 1..k}

\* _process_ress_texture_group on the next group: True when no member has an
\* image or when all that have one were repacked, False when the encoding of
\* the i-th member or a save() raised.
ProcessTextureGroupItem ==
    /\ NextIs("group")
    /\ LET members == Head(todo).members
           n == Len(members)
           miss == \E m \in Range(members) : ~HasPng(m)
       IN \/ Handled(TRUE, GroupLookups(members, n), miss, FALSE)
          \/ \E i \in 1..n :
                /\ HasPng(members[i])
                /\ Handled(FALSE, GroupLookups(members, i),
                           \E j \in 1..i : ~HasPng(members[j]), TRUE)
          \/ /\ NewDatas(members) # << >>
             /\ Handled(FALSE, GroupLookups(members, n), miss, TRUE)

\* TextureProcessor.process_embedded_texture on the next embedded texture.
ProcessEmbeddedTextureItem ==
    /\ NextIs("embedded")
    /\ LET asset_name == Head(todo).name
           looked == {<<asset_name, SourcePng(asset_name)>>}
       IN IF ~HasPng(asset_name)
            THEN Handled(FALSE, looked, TRUE, FALSE)
            ELSE \/ Handled(TRUE, looked, FALSE, FALSE)
                 \/ Handled(FALSE, looked, FALSE, TRUE)

\* FontProcessor.process on the next font.
ProcessFontItem ==
    /\ NextIs("font")
    /\ LET asset_name == Head(todo).name
           looked == {<<asset_name, FontSourceName(asset_name)>>}
       IN IF ~HasJson(asset_name)
            THEN Handled(FALSE, looked, TRUE, FALSE)
            ELSE \/ Handled(TRUE, looked, FALSE, FALSE)
                 \/ Handled(FALSE, looked, FALSE, TRUE)

\* MaterialProcessor.process on the next material: it looks nothing up; it
\* returns False when the tree has not the expected structure or something
\* raises.
ProcessMaterialItem ==
    /\ NextIs("material")
    /\ \/ Handled(TRUE, {}, FALSE, FALSE)
       \/ Handled(FALSE, {}, FALSE, TRUE)

\* _process_bundle_assets returns `success`; process_all_assets clears its
\* own flag on False and calls _process_text_assets.
FinishBundleAssets ==
    /\ apc = "bundle"
    /\ todo = << >>
    /\ all_success' = (all_success /\ bundle_success)
    /\ apc' = "text"
    /\ containers' = Append(containers, "text")
    /\ text_todo' = TextObjects
    /\ UNCHANGED <<font_source, classified, todo, attempted, bundle_success,
                   aret, lookups, missed, patcher_failed, errored>>
    /\ UNCHANGED <<fsVars, rpVars, mtVars, snVars, xtVars>>

\* One iteration of the loop of _process_text_assets.  obj.read() raises: the
\* function returns False.  Otherwise TextAssetProcessor.process is called;
\* it returns False for a name that is not a target, for a missing .txt file
\* and for an exception, and its result only feeds success_count.
ProcessTextAsset ==
    /\ apc = "text"
    /\ text_todo # << >>
    /\ LET asset_name == Head(text_todo)
           Visit(looked, miss, failed, error) ==
                /\ attempted' = Append(attempted, Item("text", asset_name, << >>))
                /\ text_todo' = Tail(text_todo)
                /\ lookups' = lookups \cup looked
                /\ missed' = (missed \/ miss)
                /\ patcher_failed' = (patcher_failed \/ failed)
                /\ errored' = (errored \/ error)
                /\ UNCHANGED <<apc, containers, all_success>>
       IN \/ /\ apc' = "title"
             /\ containers' = Append(containers, "title")
             /\ all_success' = FALSE
             /\ errored' = TRUE
             /\ UNCHANGED <<attempted, text_todo, lookups, missed,
                            patcher_failed>>
          \/ /\ asset_name \notin TextTargetAssets
             /\ Visit({}, FALSE, FALSE, FALSE)
          \/ /\ asset_name \in TextTargetAssets
             /\ \/ Visit({<<asset_name, asset_name>>}, TRUE, TRUE, FALSE)
                \/ Visit({<<asset_name, asset_name>>}, FALSE, FALSE, FALSE)
                \/ Visit({<<asset_name, asset_name>>}, FALSE, TRUE, TRUE)
    /\ UNCHANGED <<font_source, classified, todo, bundle_success, aret>>
    /\ UNCHANGED <<fsVars, rpVars, mtVars, snVars, xtVars>>

\* _process_text_assets has visited every object and returns True.
FinishTextAssets ==
    /\ apc = "text"
    /\ text_todo = << >>
    /\ apc' = "title"
    /\ containers' = Append(containers, "title")
    /\ UNCHANGED <<font_source, classified, todo, text_todo, attempted,
                   bundle_success, all_success, aret, lookups, missed,
                   patcher_failed, errored>>
    /\ UNCHANGED <<fsVars, rpVars, mtVars, snVars, xtVars>>

\* _process_title_bundle, then the return of process_all_assets.  Without
\* logo.png the function returns True at once.  With it, it returns True
\* (the logo was replaced, or no object has the target name, or the target
\* is not streamed), or False when something raised.
ProcessTitleBundle ==
    /\ apc = "title"
    /\ \E logo \in BOOLEAN, title_ok \in BOOLEAN :
        /\ ~logo => title_ok
        /\ attempted' = Append(attempted, Item("title", TitleAssetName, << >>))
        /\ lookups' = lookups \cup {<<TitleAssetName, "logo">>}
        /\ missed' = (missed \/ ~logo)
        /\ patcher_failed' = (patcher_failed \/ ~title_ok)
        /\ errored' = (errored \/ ~title_ok)
        /\ all_success' = (all_success /\ title_ok)
        /\ aret' = Bool2Ret(all_success /\ title_ok)
    /\ apc' = "done"
    /\ UNCHANGED <<font_source, classified, todo, text_todo, containers,
                   bundle_success>>
    /\ UNCHANGED <<fsVars, rpVars, mtVars, snVars, xtVars>>

NextAssets ==
    \/ InitializeUnityEnvironment
    \/ ClassifyBundleAssets
    \/ ProcessTextureGroupItem
    \/ ProcessEmbeddedTextureItem
    \/ ProcessFontItem
    \/ ProcessMaterialItem
    \/ FinishBundleAssets
    \/ ProcessTextAsset
    \/ FinishTextAssets
    \/ ProcessTitleBundle

SpecAssets == InitAssets /\ [][NextAssets]_vars

\* ------------------------------------------------ MaterialProcessor.process
\* The value written for both keys.
TextureSize == 4096

\* The typetrees process is called on: without m_SavedProperties, with
\* m_SavedProperties but without m_Floats, and with a list m_Floats of up to
\* MaxFloats entries <<key, value>>, where the two keys process rewrites and
\* two it does not may occur at any position and any number of times.
FloatKeys == {"_TextureHeight", "_TextureWidth", "_GradientScale",
              "_ScaleRatioA"}
FloatValues == {1, TextureSize}
FloatLists == UNION {[1..n -> FloatKeys \X FloatValues] : n \in 0..MaxFloats}
Trees ==
    {[has_props |-> FALSE, has_floats |-> FALSE, m_Floats |-> << >>],
     [has_props |-> TRUE, has_floats |-> FALSE, m_Floats |-> << >>]}
    \cup {[has_props |-> TRUE, has_floats |-> TRUE, m_Floats |-> fl] :
            fl \in FloatLists}

\* Faulty variant of StructureOk: the structure is not tested.
StructureOkUnchecked(t) == TRUE

\* "m_SavedProperties" in tree and "m_Floats" in tree["m_SavedProperties"].
StructureOk(t) == t.has_props /\ t.has_floats

HasKey(floats, key) == \E i \in 1..Len(floats) : floats[i][1] = key

\* The loop over m_Floats: new_floats after the last iteration.
RECURSIVE Rewritten(_)
Rewritten(floats) ==
    IF floats = << >> THEN << >>
    ELSE LET key == Head(floats)[1]
             value == Head(floats)[2]
         IN <<IF key = "_TextureHeight" THEN <<key, TextureSize>>
              ELSE IF key = "_TextureWidth" THEN <<key, TextureSize>>
              ELSE <<key, value>>>> \o Rewritten(Tail(floats))

\* Faulty variant of NewFloats: a missing width is appended before a missing
\* height.
NewFloatsWidthFirst(floats) ==
    Rewritten(floats)
        \o (IF HasKey(floats, "_TextureWidth") THEN << >>
            ELSE << <<"_TextureWidth", TextureSize>> >>)
        \o (IF HasKey(floats, "_TextureHeight") THEN << >>
            ELSE << <<"_TextureHeight", TextureSize>> >>)

\* new_floats as assigned to tree["m_SavedProperties"]["m_Floats"].
NewFloats(floats) ==
    Rewritten(floats)
        \o (IF HasKey(floats, "_TextureHeight") THEN << >>
            ELSE << <<"_TextureHeight", TextureSize>> >>)
        \o (IF HasKey(floats, "_TextureWidth") THEN << >>
            ELSE << <<"_TextureWidth", TextureSize>> >>)

InitMaterial ==
    /\ InitFs
    /\ IdleRepack
    /\ IdleAssets
    /\ IdleSanitize
    /\ IdleExtra
    /\ tree \in Trees
    /\ orig_tree = tree
    /\ written = NoTree
    /\ save_called = FALSE
    /\ mpc = "ready"
    /\ mret = "none"

\* MaterialProcessor.process: read_typetree raises; or the structure is not
\* the expected one; or the list is rebuilt and save_typetree is called,
\* which stores the tree or raises.
MaterialProcess ==
    /\ mpc = "ready"
    /\ \/ /\ mret' = "false"
          /\ UNCHANGED <<tree, written, save_called>>
       \/ /\ ~StructureOk(tree)
          /\ mret' = "false"
          /\ UNCHANGED <<tree, written, save_called>>
       \/ /\ StructureOk(tree)
          /\ tree' = [tree EXCEPT !.m_Floats = NewFloats(@)]
          /\ save_called' = TRUE
          /\ \/ written' = tree' /\ mret' = "true"
             \/ written' = written /\ mret' = "false"
    /\ mpc' = "returned"
    /\ UNCHANGED orig_tree
    /\ UNCHANGED <<fsVars, rpVars, paVars, snVars, xtVars>>

SpecMaterial == InitMaterial /\ [][MaterialProcess]_vars

\* --------------------------------------------------------- sanitize_filename
\* A name is a sequence of characters.  The characters tried: letters and a
\* digit, the five punctuation characters the function names, the space, and
\* three characters it does not name.
Alnum == {"a", "Z", "7"}
Punctuation == {".", "-", "_", "(", ")"}
OtherChars == {"/", ":", "*"}
Chars == Alnum \cup Punctuation \cup {" "} \cup OtherChars
Names == UNION {[1..n -> Chars] : n \in 0..MaxName}

\* c.isalnum() or c in " .-_()"
Keeps(c) == c \in Alnum \/ c \in {" ", ".", "-", "_", "(", ")"}

\* str.replace(old, new) for single characters.
Replace(str, old, new) ==
    [i \in 1..Len(str) |-> IF str[i] = old THEN new ELSE str[i]]

\* Faulty variant of sanitize_filename: the first character is left out.
sanitize_filename_skipping_first(str) ==
    IF str = << >> THEN << >>
    ELSE Replace(SelectSeq(Tail(str), Keeps), " ", "_")

\* Faulty variant of sanitize_filename: the space is not among the
\* characters the filter keeps.
sanitize_filename_dropping_spaces(str) ==
    LET KeepsNoSpace(c) == Keeps(c) /\ c # " "
    IN Replace(SelectSeq(str, KeepsNoSpace), " ", "_")

sanitize_filename(str) == Replace(SelectSeq(str, Keeps), " ", "_")

InitSanitize ==
    /\ InitFs
    /\ IdleRepack
    /\ IdleAssets
    /\ IdleMaterial
    /\ IdleExtra
    /\ raw_name \in Names
    /\ safe_name = << >>
    /\ spc = "ready"

SanitizeFilename ==
    /\ spc = "ready"
    /\ safe_name' = sanitize_filename(raw_name)
    /\ spc' = "returned"
    /\ UNCHANGED raw_name
    /\ UNCHANGED <<fsVars, rpVars, paVars, mtVars, xtVars>>

SpecSanitize == InitSanitize /\ [][SanitizeFilename]_vars

\* ===========================================================================
\* The four patchers, each called once on one object.
\*
\* An object, a typetree and a catalogue document are functions from keys to
\* values.  A value is "live" (what the game shipped), "src" (what the
\* catalogue file holds for that key) or "empty"; m_Name holds the name.

Patchers == {"font", "texture", "text", "title"}

\* The keys FontProcessor.process copies from the source document.
FontDataKeys == {"m_fontInfo", "m_glyphInfoList"}
\* The keys a font typetree or a font document may have besides m_Name:
\* m_kerningInfo stands for every key other than the two copied ones.
FontKeys == FontDataKeys \cup {"m_kerningInfo"}
\* What process_embedded_texture assigns.
TextureKeys == {"image", "m_Width", "m_Height"}
\* What TextAssetProcessor.process assigns.
TextKeys == {"m_Script"}
\* What _process_title_bundle assigns to the title texture.
TitleKeys == {"m_StreamData", "m_Width", "m_Height", "m_TextureFormat",
              "m_CompleteImageSize"}

Object(asset_name, keys) ==
    [k \in keys \cup {"m_Name"} |-> IF k = "m_Name" THEN asset_name ELSE "live"]
Document(keys) == [k \in keys |-> "src"]
Assigned(obj, keys) ==
    [k \in DOMAIN obj \cup keys |-> IF k \in keys THEN "src" ELSE obj[k]]

\* Faulty variant of FontTreeAfter: the tree is updated with every key of the
\* document.
FontTreeAfterUpdate(original_tree, source_dict) ==
    [k \in DOMAIN original_tree \cup DOMAIN source_dict |->
        IF k \in DOMAIN source_dict THEN source_dict[k] ELSE original_tree[k]]

\* The two conditional assignments of FontProcessor.process.
FontTreeAfter(original_tree, source_dict) ==
    [k \in DOMAIN original_tree \cup (FontDataKeys \cap DOMAIN source_dict) |->
        IF k \in FontDataKeys \cap DOMAIN source_dict
            THEN source_dict[k]
            ELSE original_tree[k]]

\* Faulty variant of OnAllowList: every name passes.
OnAllowListAlways(asset_name) == TRUE

\* asset_name in TEXT_TARGET_ASSETS.
OnAllowList(asset_name) == asset_name \in TextTargetAssets

InitPatchers ==
    /\ InitFs
    /\ IdleRepack
    /\ IdleAssets
    /\ IdleMaterial
    /\ IdleSanitize
    /\ IdleClassify
    /\ IdleFileWrapper
    /\ patcher \in Patchers
    /\ has_source \in BOOLEAN
    /\ \/ /\ patcher = "font"
          /\ form = "inline"
          /\ \E n \in Range(FontNames), keys \in SUBSET FontKeys :
                fields = Object(n, keys)
          /\ \E keys \in SUBSET (FontKeys \cup {"m_Name"}) :
                /\ ~has_source => keys = {}
                /\ source = Document(keys)
       \/ /\ patcher = "texture"
          /\ \E n \in TextureNameSet : fields = Object(n, TextureKeys)
          /\ form = "inline"
          /\ source = IF has_source THEN Document(TextureKeys) ELSE << >>
       \/ /\ patcher = "text"
          /\ form = "inline"
          /\ \E n \in Range(TextObjects), named \in BOOLEAN :
                fields = IF named THEN Object(n, TextKeys)
                                  ELSE [k \in TextKeys |-> "live"]
          /\ source = IF has_source THEN Document(TextKeys) ELSE << >>
       \/ /\ patcher = "title"
          /\ form \in {"absent", "inline", "stream"}
          /\ \E extra \in SUBSET {"image_data"} :
                fields = IF form = "absent"
                            THEN << >>
                            ELSE Object(TitleAssetName, TitleKeys \cup extra)
          /\ source = IF has_source THEN Document(TitleKeys) ELSE << >>
    /\ fields0 = fields
    /\ pstream = "live"
    /\ saves = << >>
    /\ ppc = "ready"
    /\ pret = "none"

\* FontProcessor.process: no catalogue file; open, json.load or save_typetree
\* raises; or the merged tree is stored.
FontProcessorProcess ==
    /\ ppc = "ready"
    /\ patcher = "font"
    /\ \/ /\ ~has_source
          /\ pret' = "false"
          /\ UNCHANGED <<fields, saves>>
       \/ /\ has_source
          /\ pret' = "false"
          /\ UNCHANGED <<fields, saves>>
       \/ /\ has_source
          /\ fields' = FontTreeAfter(fields, source)
          /\ saves' = Append(saves, fields')
          /\ pret' = "true"
    /\ ppc' = "returned"
    /\ UNCHANGED <<patcher, has_source, source, form, fields0, pstream>>
    /\ UNCHANGED <<fsVars, rpVars, paVars, mtVars, snVars, clVars, fwVars>>

\* TextureProcessor.process_embedded_texture: no catalogue file; Image.open
\* raises; the three assignments, then save, which may raise.
ProcessEmbeddedTexture ==
    /\ ppc = "ready"
    /\ patcher = "texture"
    /\ \/ /\ ~has_source
          /\ pret' = "false"
          /\ UNCHANGED <<fields, saves>>
       \/ /\ has_source
          /\ pret' = "false"
          /\ UNCHANGED <<fields, saves>>
       \/ /\ has_source
          /\ fields' = Assigned(fields, TextureKeys)
          /\ \/ /\ pret' = "false"
                /\ UNCHANGED saves
             \/ /\ saves' = Append(saves, fields')
                /\ pret' = "true"
    /\ ppc' = "returned"
    /\ UNCHANGED <<patcher, has_source, source, form, fields0, pstream>>
    /\ UNCHANGED <<fsVars, rpVars, paVars, mtVars, snVars, clVars, fwVars>>

\* TextAssetProcessor.process: an object without m_Name, a name outside the
\* allow-list, no catalogue file, a read that raises; the assignment of
\* m_Script, then save, which may raise.
TextAssetProcessorProcess ==
    /\ ppc = "ready"
    /\ patcher = "text"
    /\ \/ /\ "m_Name" \notin DOMAIN fields
          /\ pret' = "false"
          /\ UNCHANGED <<fields, saves>>
       \/ /\ "m_Name" \in DOMAIN fields
          /\ ~OnAllowList(fields["m_Name"])
          /\ pret' = "false"
          /\ UNCHANGED <<fields, saves>>
       \/ /\ "m_Name" \in DOMAIN fields
          /\ OnAllowList(fields["m_Name"])
          /\ ~has_source
          /\ pret' = "false"
          /\ UNCHANGED <<fields, saves>>
       \/ /\ "m_Name" \in DOMAIN fields
          /\ OnAllowList(fields["m_Name"])
          /\ has_source
          /\ \/ /\ pret' = "false"
                /\ UNCHANGED <<fields, saves>>
             \/ /\ fields' = Assigned(fields, TextKeys)
                /\ \/ /\ pret' = "false"
                      /\ UNCHANGED saves
                   \/ /\ saves' = Append(saves, fields')
                      /\ pret' = "true"
    /\ ppc' = "returned"
    /\ UNCHANGED <<patcher, has_source, source, form, fields0, pstream>>
    /\ UNCHANGED <<fsVars, rpVars, paVars, mtVars, snVars, clVars, fwVars>>

\* The title texture after the metadata assignments: image_data is emptied
\* when the object has it.
TitleMetadataAfter(obj) ==
    [k \in DOMAIN obj |->
        IF k \in TitleKeys THEN "src"
        ELSE IF k = "image_data" THEN "empty"
        ELSE obj[k]]

\* _process_title_bundle: no logo.png; a read or the encoding raises; no
\* target texture; a target with an inline payload (printed as not supported,
\* the loop is left); a target in a .resS: the new stream is installed, the
\* metadata assigned, then save, which may raise.
ProcessTitleTexture ==
    /\ ppc = "ready"
    /\ patcher = "title"
    /\ \/ /\ ~has_source
          /\ pret' = "true"
          /\ UNCHANGED <<fields, saves, pstream>>
       \/ /\ has_source
          /\ pret' = "false"
          /\ UNCHANGED <<fields, saves, pstream>>
       \/ /\ has_source
          /\ form \in {"absent", "inline"}
          /\ pret' = "true"
          /\ UNCHANGED <<fields, saves, pstream>>
       \/ /\ has_source
          /\ form = "stream"
          /\ pstream' = "new"
          /\ fields' = TitleMetadataAfter(fields)
          /\ \/ /\ pret' = "false"
                /\ UNCHANGED saves
             \/ /\ saves' = Append(saves, fields')
                /\ pret' = "true"
    /\ ppc' = "returned"
    /\ UNCHANGED <<patcher, has_source, source, form, fields0>>
    /\ UNCHANGED <<fsVars, rpVars, paVars, mtVars, snVars, clVars, fwVars>>

NextPatchers ==
    \/ FontProcessorProcess
    \/ ProcessEmbeddedTexture
    \/ TextAssetProcessorProcess
    \/ ProcessTitleTexture

SpecPatchers == InitPatchers /\ [][NextPatchers]_vars

\* ===========================================================================
\* The classification loop of _process_bundle_assets.
\*
\* An object has a type, a name ("" when it has none), the path of its stream
\* data (<< >> when the payload is embedded, else <<directory, basename>>),
\* and it can be read or its read raises.

ObjectTypes == {"MonoBehaviour", "Material", "Texture2D", "GameObject"}
ObjectNames == {"", "chinese_body", "simsun_tmpro Material",
                "chinese_body Atlas", "Other"}
StreamDataPaths == {<<"archive:/CAB-1", "a.resS">>,
                    <<"archive:/CAB-2", "a.resS">>,
                    <<"archive:/CAB-1", "b.resS">>}
BundleObjects ==
    [type : ObjectTypes \ {"Texture2D"}, name : ObjectNames, path : {<< >>},
     readable : BOOLEAN]
    \cup [type : {"Texture2D"}, name : ObjectNames,
          path : {<< >>} \cup StreamDataPaths, readable : BOOLEAN]

ObjectLists == UNION {[1..n -> BundleObjects] : n \in 0..MaxObjects}

\* Faulty variant of Basename: the whole path is the key.
BasenameWholePath(path) == path[1] \o "/" \o path[2]

\* os.path.basename.
Basename(path) == path[Len(path)]

NoBuckets == [fonts |-> << >>, materials |-> << >>, by_ress |-> << >>,
              embedded |-> << >>]

\* textures_by_ress after the append to the list under key.
GroupedUnder(by_ress, key, i) ==
    [k \in DOMAIN by_ress \cup {key} |->
        IF k = key
            THEN IF key \in DOMAIN by_ress THEN Append(by_ress[key], i)
                                           ELSE <<i>>
            ELSE by_ress[k]]

\* One iteration of the loop, on the object at position i.
ClassifyObject(b, i, obj) ==
    IF obj.type \notin {"MonoBehaviour", "Material", "Texture2D"} THEN b
    ELSE IF ~obj.readable THEN b
    ELSE IF obj.name = "" THEN b
    ELSE IF obj.type = "MonoBehaviour" /\ obj.name \in Range(FontNames)
        THEN [b EXCEPT !.fonts = Append(@, i)]
    ELSE IF obj.type = "Material" /\ obj.name \in Range(MaterialNames)
        THEN [b EXCEPT !.materials = Append(@, i)]
    ELSE IF obj.type = "Texture2D" /\ obj.name \in TextureNameSet
        THEN IF obj.path # << >>
                THEN [b EXCEPT !.by_ress =
                            GroupedUnder(@, Basename(obj.path), i)]
                ELSE [b EXCEPT !.embedded = Append(@, i)]
    ELSE b

RECURSIVE ClassifyUpTo(_, _)
ClassifyUpTo(all_objects, n) ==
    IF n = 0 THEN NoBuckets
    ELSE ClassifyObject(ClassifyUpTo(all_objects, n - 1), n, all_objects[n])

InitClassify ==
    /\ InitFs
    /\ IdleRepack
    /\ IdleAssets
    /\ IdleMaterial
    /\ IdleSanitize
    /\ IdlePatchers
    /\ IdleFileWrapper
    /\ objects \in ObjectLists
    /\ fonts_to_process = << >>
    /\ materials_to_process = << >>
    /\ textures_by_ress = << >>
    /\ embedded_textures = << >>
    /\ cpc = "ready"

\* The whole loop over all_objects.
ClassifyObjects ==
    /\ cpc = "ready"
    /\ LET b == ClassifyUpTo(objects, Len(objects))
       IN  /\ fonts_to_process' = b.fonts
           /\ materials_to_process' = b.materials
           /\ textures_by_ress' = b.by_ress
           /\ embedded_textures' = b.embedded
    /\ cpc' = "classified"
    /\ UNCHANGED objects
    /\ UNCHANGED <<fsVars, rpVars, paVars, mtVars, snVars, ptVars, fwVars>>

SpecClassify == InitClassify /\ [][ClassifyObjects]_vars

\* ===========================================================================
\* FileWrapper over a stream of at most MaxStream bytes.

Bytes == {"x", "y"}
Streams == UNION {[1..n -> Bytes] : n \in 0..MaxStream}
Min(a, b) == IF a < b THEN a ELSE b

\* The property Length.
Length == Len(w_stream)

\* BytesIO.read(length) at position pos: the bytes from pos on, at most length
\* of them when length is not negative, none when pos is at or past the end.
StreamRead(pos, length) ==
    LET avail == IF pos >= Length THEN 0 ELSE Length - pos
        count == IF length < 0 THEN avail ELSE Min(length, avail)
    IN  SubSeq(w_stream, pos + 1, pos + count)

InitFileWrapper ==
    /\ InitFs
    /\ IdleRepack
    /\ IdleAssets
    /\ IdleMaterial
    /\ IdleSanitize
    /\ IdlePatchers
    /\ IdleClassify
    /\ w_stream \in Streams
    /\ w_position = 0
    /\ w_op = "none"
    /\ w_arg = 0
    /\ w_before = 0
    /\ w_returned = << >>
    /\ w_raised = FALSE
    /\ w_calls = 0

\* read_bytes(length).
ReadBytes ==
    /\ w_calls < MaxCalls
    /\ \E length \in -1..(MaxStream + 1) :
        /\ w_arg' = length
        /\ w_returned' = StreamRead(w_position, length)
        /\ w_position' = w_position + Len(w_returned')
    /\ w_op' = "read_bytes"
    /\ w_before' = w_position
    /\ w_raised' = FALSE
    /\ w_calls' = w_calls + 1
    /\ UNCHANGED w_stream
    /\ UNCHANGED <<fsVars, rpVars, paVars, mtVars, snVars, ptVars, clVars>>

\* Position = value: seek raises for a negative value and moves the position
\* anywhere else, past the end included.
SetPosition ==
    /\ w_calls < MaxCalls
    /\ \E value \in -1..(MaxStream + 1) :
        /\ w_arg' = value
        /\ w_raised' = (value < 0)
        /\ w_position' = IF value < 0 THEN w_position ELSE value
    /\ w_op' = "seek"
    /\ w_before' = w_position
    /\ w_returned' = << >>
    /\ w_calls' = w_calls + 1
    /\ UNCHANGED w_stream
    /\ UNCHANGED <<fsVars, rpVars, paVars, mtVars, snVars, ptVars, clVars>>

\* Faulty variant of Save: the stream is read from where it stands.
SaveFromPosition ==
    /\ w_calls < MaxCalls
    /\ w_returned' = StreamRead(w_position, -1)
    /\ w_position' = w_position + Len(w_returned')
    /\ w_op' = "save"
    /\ w_arg' = 0
    /\ w_before' = w_position
    /\ w_raised' = FALSE
    /\ w_calls' = w_calls + 1
    /\ UNCHANGED w_stream
    /\ UNCHANGED <<fsVars, rpVars, paVars, mtVars, snVars, ptVars, clVars>>

\* save(): Position = 0, then read().
Save ==
    /\ w_calls < MaxCalls
    /\ w_returned' = StreamRead(0, -1)
    /\ w_position' = Len(w_returned')
    /\ w_op' = "save"
    /\ w_arg' = 0
    /\ w_before' = w_position
    /\ w_raised' = FALSE
    /\ w_calls' = w_calls + 1
    /\ UNCHANGED w_stream
    /\ UNCHANGED <<fsVars, rpVars, paVars, mtVars, snVars, ptVars, clVars>>

NextFileWrapper == ReadBytes \/ SetPosition \/ Save

SpecFileWrapper == InitFileWrapper /\ [][NextFileWrapper]_vars

\* ------------------------------------------------------------------- claims
\* C1: when save_modified_files returns False, replace_game_files is not
\* called and nothing outside the temp workspace has been written: the three
\* live files (and the backup just made of them) are as they were when the
\* run began.
C1_StagingFailureKeepsLiveFiles ==
    (pc = "done" /\ ret.save = "false") =>
        /\ ret.replace = "none"
        /\ live = liveBefore
        /\ backup = liveBefore

C1_Witness ==
    /\ pc = "done"
    /\ ret.save = "false"
    /\ \E f \in Files : Exists(temp[f]) /\ temp[f] # EmptyFile
                        /\ temp[f] # live[f]

\* C2: replace_game_files is all-or-nothing: when it has returned False no
\* live file holds its staged version, when it has returned True all three
\* do.
C2_ReplaceAllOrNothing ==
    /\ (pc = "done" /\ ret.replace = "false") => live = liveBefore
    /\ (pc = "done" /\ ret.replace = "true") =>
            \A f \in Files : live[f] = Serialize(env[f][1])

\* C3: the stages of a run happen in the order backup, asset processing,
\* staging, commit; a stage is started only when the one before it returned
\* True; and no step of a run other than replace_game_files writes a live
\* file.
StageOrder ==
    /\ ret.backup # "none" => ret.cleanup # "none"
    /\ (pc = "process" \/ ret.process # "none") => ret.backup = "true"
    /\ (pc = "save" \/ ret.save # "none") => ret.process = "true"
    /\ (pc = "replace" \/ ret.replace # "none") => ret.save = "true"

OnlyReplaceWritesLive ==
    pc \in {"cleanup", "backup", "process", "save"} => live' = live

C3_StageOrdering == []StageOrder /\ [][OnlyReplaceWritesLive]_vars

C3_Witness ==
    /\ pc = "done"
    /\ ret.replace = "true"
    /\ \A f \in Files : live[f] # liveBefore[f]

\* C4: with a Backup folder in which at least one of the three backup files
\* is missing, restore_backup returns False, prints every missing path and
\* copies nothing: the three live files are as they were.
C4_RestoreRefusesIncompleteBackup ==
    (pc = "done" /\ ret.restore # "none" /\ backupDir /\ MissingBackups # {})
        => /\ ret.restore = "false"
           /\ reported = MissingBackups
           /\ live = liveBefore

C4_Witness ==
    /\ pc = "done"
    /\ ret.restore = "false"
    /\ reported # {}
    /\ \E f \in Files : Exists(backup[f]) /\ backup[f] # live[f]

C7_TempWorkspaceRemoved ==
    (pc = "done" /\ ret.replace \in {"true", "false"}) =>
        (~tempDir /\ temp = NoFiles)

C7_Witness ==
    /\ pc = "done"
    /\ ret.replace = "false"
    /\ live # liveBefore
    /\ ~tempDir


Members == Range(texture_group)
Processed == {m \in Members : HasPng(m)}
AllInCatalogue == Processed = Members

\* b is the member that follows a in the order of the original offsets.
Follows(a, b) ==
    /\ orig[a].offset < orig[b].offset
    /\ ~\E c \in Members : /\ orig[a].offset < orig[c].offset
                           /\ orig[c].offset < orig[b].offset

\* The bytes md addresses lie inside the installed stream and are the
\* payload `kind` of texture m.
Addresses(md, kind, m) ==
    /\ md.offset + md.size <= Len(stream)
    /\ SubSeq(stream, md.offset + 1, md.offset + md.size)
            = Payload(kind, m, md.size)

\* C8: when every member of a group has a catalogue image and
\* _process_ress_texture_group has returned True, the members taken in the
\* order of their original offsets have new offsets that start at 0, strictly
\* increase and are contiguous, and their sizes add up to the length of the
\* installed stream.
C8_PackedLayout ==
    (rpc = "returned" /\ rret = "true" /\ AllInCatalogue) =>
        /\ \A a \in Members :
              (\A c \in Members : orig[a].offset <= orig[c].offset)
                  => tex[a].offset = 0
        /\ \A a, b \in Members :
              Follows(a, b) => /\ tex[a].offset < tex[b].offset
                               /\ tex[a].offset + tex[a].size = tex[b].offset
        /\ SumSizes(texture_group, [m \in Members |-> tex[m].size])
              = Len(stream)
        /\ saved = tex

C8_Witness ==
    /\ rpc = "returned"
    /\ rret = "true"
    /\ AllInCatalogue
    /\ Len(texture_group) = Len(TextureNames)
    /\ \A m \in Members : tex[m] # orig[m]

\* C9: when only some members of a group have a catalogue image, after the
\* repacking every member addresses a byte range inside the installed stream,
\* and a member that was not replaced still addresses its original payload.
C9_UnreplacedMembersKept ==
    (rpc = "returned" /\ rret = "true"
        /\ Processed # {} /\ Processed # Members) =>
        \A m \in Members :
            /\ saved[m].offset + saved[m].size <= Len(stream)
            /\ m \notin Processed => Addresses(saved[m], "old", m)

\* C10: however _process_ress_texture_group ends, either every processed
\* member has its new metadata and the new stream is installed, or no
\* processed member has new metadata.
C10_MetadataAllOrNothing ==
    rpc = "returned" =>
        \/ wrapped /\ \A m \in Processed : Addresses(saved[m], "new", m)
        \/ \A m \in Processed : saved[m] = orig[m]

\* C11: when the encoding of one member's catalogue image fails, only that
\* member is skipped: the other members that have a catalogue image are
\* laid out in the new stream and carry the updated metadata.
C11_EncodeFailureSkipsOneMember ==
    (rpc = "returned" /\ raised.at = "encode") =>
        \A m \in Processed \ {raised.member} :
            wrapped /\ Addresses(saved[m], "new", m)

\* C12: a group none of whose members has a catalogue image is left as it
\* was: the function returns True, the container's entry for the stream is
\* not replaced, the stream holds the original payloads, and no member's
\* metadata is changed.
C12_GroupWithoutImagesUntouched ==
    (rpc = "returned" /\ Processed = {}) =>
        /\ rret = "true"
        /\ ~wrapped
        /\ Len(stream) = SumSizes(texture_group,
                                  [m \in Members |-> orig[m].size])
        /\ \A m \in Members : Addresses(orig[m], "old", m)
        /\ tex = orig
        /\ saved = orig

C12_Witness ==
    /\ rpc = "returned"
    /\ Processed = {}
    /\ catalogue # {}
    /\ Len(texture_group) > 1
    /\ rret = "true"

C14_TrueOnlyIfEveryPatcherSucceeded ==
    (apc = "done" /\ patcher_failed) => aret = "false"

\* C15: a missing catalogue file is not an error: when lookups found no
\* file and nothing else went wrong, process_all_assets returns True.
C15_CatalogueMissIsNoError ==
    (apc = "done" /\ missed /\ ~errored) => aret = "true"

\* C20: an asset carrying the do_not_use_ prefix is looked up under the
\* same catalogue key as its canonical counterpart: both fonts under
\* chinese_body_bold, both atlases under chinese_body_bold_Atlas, so one
\* has a catalogue file exactly when the other has; the patcher of the
\* materials looks nothing up.
C20_AliasResolution ==
    /\ \A l \in lookups :
        /\ l[1] \in {"do_not_use_chinese_body_bold", "chinese_body_bold"}
                => l[2] = "chinese_body_bold"
        /\ l[1] \in {"do_not_use_chinese_body_bold Atlas",
                     "chinese_body_bold Atlas"}
                => l[2] = "chinese_body_bold_Atlas"
        /\ l[1] \notin Range(MaterialNames)
    /\ HasJson("do_not_use_chinese_body_bold") = HasJson("chinese_body_bold")
    /\ HasPng("do_not_use_chinese_body_bold Atlas")
            = HasPng("chinese_body_bold Atlas")

C20_Witness ==
    /\ apc = "done"
    /\ {"do_not_use_chinese_body_bold", "chinese_body_bold",
        "do_not_use_chinese_body_bold Atlas", "chinese_body_bold Atlas"}
            \subseteq {l[1] : l \in lookups}
    /\ "do_not_use_chinese_body_bold Material"
            \in {attempted[i].name : i \in 1..Len(attempted)}
    /\ aret = "true"

\* C16: for a material with m_SavedProperties.m_Floats, process writes back
\* a list in which every entry keyed _TextureHeight or _TextureWidth has
\* the value 4096 at its position, every other entry is as it was and where
\* it was, and a key of the two that was absent is appended once at the
\* end with the value 4096, the height before the width; nothing else is
\* added, removed or moved.
C16_MaterialPatchResult ==
    (mpc = "returned" /\ mret = "true") =>
        LET old == orig_tree.m_Floats
            new == written.m_Floats
            n == Len(old)
            Sized(key) == key \in {"_TextureHeight", "_TextureWidth"}
            h == IF HasKey(old, "_TextureHeight") THEN 0 ELSE 1
            w == IF HasKey(old, "_TextureWidth") THEN 0 ELSE 1
        IN /\ written.has_props /\ written.has_floats
           /\ Len(new) = n + h + w
           /\ \A i \in 1..n :
                /\ new[i][1] = old[i][1]
                /\ new[i][2] = IF Sized(old[i][1]) THEN 4096 ELSE old[i][2]
           /\ h = 1 => new[n + 1] = <<"_TextureHeight", 4096>>
           /\ w = 1 => new[n + h + 1] = <<"_TextureWidth", 4096>>

C16_Witness ==
    /\ mpc = "returned"
    /\ mret = "true"
    /\ Len(orig_tree.m_Floats) = 3
    /\ orig_tree.m_Floats[1] = <<"_GradientScale", 1>>
    /\ orig_tree.m_Floats[2] = <<"_TextureWidth", 1>>
    /\ orig_tree.m_Floats[3][1] = "_ScaleRatioA"
    /\ Len(written.m_Floats) = 4

\* C17: for a material tree without m_SavedProperties, or without m_Floats
\* in it, process returns (False) without raising, never calls
\* save_typetree and leaves the tree as it was read.
C17_MaterialStructuralMismatch ==
    (mpc = "returned" /\ ~(orig_tree.has_props /\ orig_tree.has_floats)) =>
        /\ mret = "false"
        /\ ~save_called
        /\ written = NoTree
        /\ tree = orig_tree

C17_Witness ==
    /\ mpc = "returned"
    /\ orig_tree.has_props
    /\ ~orig_tree.has_floats
    /\ mret = "false"

\* C18: sanitize_filename is idempotent: applied to its own result it
\* returns that result.
C18_SanitizeIdempotent ==
    spc = "returned" => sanitize_filename(safe_name) = safe_name

C18_Witness ==
    /\ spc = "returned"
    /\ safe_name # raw_name
    /\ Len(safe_name) > 1
    /\ "_" \in Range(safe_name)
    /\ "_" \notin Range(raw_name)

\* C19: the result of sanitize_filename is the input with every
\* alphanumeric character and every one of . - _ ( ) kept as it is and in
\* order, every space turned into an underscore and every other character
\* dropped; it holds no space and no character outside that set.
C19_SanitizeCharacterRule ==
    spc = "returned" =>
        LET Stays(c) == c \in Alnum \cup {".", "-", "_", "(", ")"}
            kept == {i \in 1..Len(raw_name) :
                        Stays(raw_name[i]) \/ raw_name[i] = " "}
            Nth(k) == CHOOSE i \in kept :
                        Cardinality({j \in kept : j <= i}) = k
        IN /\ Len(safe_name) = Cardinality(kept)
           /\ \A k \in 1..Len(safe_name) :
                safe_name[k] = IF raw_name[Nth(k)] = " " THEN "_"
                               ELSE raw_name[Nth(k)]
           /\ \A k \in 1..Len(safe_name) : Stays(safe_name[k])

C19_Witness ==
    /\ spc = "returned"
    /\ Len(raw_name) = 3
    /\ " " \in Range(raw_name)
    /\ Range(raw_name) \cap OtherChars # {}
    /\ Range(raw_name) \cap Alnum # {}
    /\ Len(safe_name) = 2

\* The place of a kind of asset in the order of processing.
Rank(kind) ==
    CASE kind = "group" -> 1
      [] kind = "embedded" -> 2
      [] kind = "font" -> 3
      [] kind = "material" -> 4
      [] kind = "text" -> 5
      [] kind = "title" -> 6

\* C24: in the font bundle every texture group is processed before any
\* embedded texture, every embedded texture before any font and every font
\* before any material, whatever the earlier patchers returned; when a
\* material has been handed to its patcher, every classified texture and
\* font has been attempted.
C24_FixedProcessingOrder ==
    /\ \A i, j \in 1..Len(attempted) :
            i < j => Rank(attempted[i].kind) <= Rank(attempted[j].kind)
    /\ (\E i \in 1..Len(attempted) : attempted[i].kind = "material") =>
            \A c \in Range(classified) :
                c.kind # "material" => c \in Range(attempted)

C24_Witness ==
    /\ apc = "done"
    /\ missed
    /\ errored
    /\ Len(classified) > 5
    /\ {classified[i].kind : i \in 1..Len(classified)}
            = {"group", "embedded", "font", "material"}
    /\ attempted[1].kind = "group"
    /\ attempted[Len(classified)].kind = "material"

\* C25: in one call of _process_ress_texture_group the container's entry
\* for the stream is replaced at most once, and then by the complete new
\* stream, which holds the encoded payload of every member that has a
\* catalogue image and nothing else; when an encoding raises, the entry,
\* the stream and every member's metadata are as before the call.
C25_StreamInstalledOnce ==
    rpc = "returned" =>
        /\ installs <= 1
        /\ wrapped <=> installs = 1
        /\ wrapped =>
            /\ \A i \in 1..Len(stream) :
                    stream[i][1] = "new" /\ stream[i][2] \in Processed
            /\ \A m \in Processed :
                    \E i \in 1..Len(stream) : stream[i] = <<"new", m>>
        /\ raised.at = "encode" =>
            /\ ~wrapped
            /\ \A m \in Members : Addresses(orig[m], "old", m)
            /\ tex = orig
            /\ saved = orig

C25_Witness ==
    /\ rpc = "returned"
    /\ raised.at = "encode"
    /\ \E i, j \in 1..Len(texture_group) :
        /\ i < j
        /\ HasPng(texture_group[i])
        /\ texture_group[j] = raised.member
    /\ installs = 0

C29_SuccessfulBackupIsComplete ==
    ret.backup = "true" => ValidateBackup

\* ---------------------------------------------------------------------------
\* C21: when FontProcessor.process returns True, the tree it stored has the
\* document's value at each of m_fontInfo and m_glyphInfoList that the
\* document contains and the original value at every other key, and it has no
\* key beyond those of the live tree and those copied; when it returns False
\* nothing was stored.
C21_FontPatchFrame ==
    (ppc = "returned" /\ patcher = "font") =>
        /\ pret = "true" =>
            /\ has_source
            /\ saves = <<fields>>
            /\ DOMAIN fields =
                    DOMAIN fields0 \cup (FontDataKeys \cap DOMAIN source)
            /\ \A k \in DOMAIN fields :
                    fields[k] = IF k \in FontDataKeys /\ k \in DOMAIN source
                                    THEN source[k]
                                    ELSE fields0[k]
        /\ pret = "false" => (saves = << >> /\ fields = fields0)

\* A font was patched from a document that has m_fontInfo and a key that is
\* not copied, but no m_glyphInfoList, which the live tree has.
C21_Witness ==
    /\ ppc = "returned"
    /\ patcher = "font"
    /\ pret = "true"
    /\ "m_fontInfo" \in DOMAIN source
    /\ "m_kerningInfo" \in DOMAIN source
    /\ "m_glyphInfoList" \notin DOMAIN source
    /\ {"m_glyphInfoList", "m_kerningInfo"} \subseteq DOMAIN fields0

\* ---------------------------------------------------------------------------
\* C22: a font or a standalone texture without a catalogue file, and a text
\* blob that is outside the allow-list or has no catalogue file, is left as it
\* was: the patcher returns False, has called neither save nor save_typetree
\* and has assigned no field.
Skipped ==
    \/ patcher \in {"font", "texture"} /\ ~has_source
    \/ /\ patcher = "text"
       /\ "m_Name" \in DOMAIN fields0
       /\ (fields0["m_Name"] \notin TextTargetAssets \/ ~has_source)

C23_TitleReplacedInEitherForm ==
    (ppc = "returned" /\ patcher = "title" /\ has_source
        /\ form \in {"inline", "stream"} /\ pret = "true") =>
            /\ saves # << >>
            /\ fields # fields0

\* ---------------------------------------------------------------------------
\* C26: after the classification each object is in at most one bucket and at
\* most once; a readable MonoBehaviour, Material or Texture2D whose name is on
\* the allow-list of its type is in the bucket of its type, a Texture2D with a
\* stream path in the group keyed by the basename of that path and one
\* without in the standalone bucket; every other object, and every object
\* whose read raises, is in no bucket.
Buckets == {"fonts", "materials", "embedded"} \cup DOMAIN textures_by_ress

BucketNamed(b) ==
    CASE b = "fonts" -> fonts_to_process
      [] b = "materials" -> materials_to_process
      [] b = "embedded" -> embedded_textures
      [] OTHER -> textures_by_ress[b]

Holders(i) == {b \in Buckets : i \in Range(BucketNamed(b))}

ExpectedBucket(obj) ==
    IF ~obj.readable THEN {}
    ELSE IF obj.type = "MonoBehaviour" /\ obj.name \in Range(FontNames)
        THEN {"fonts"}
    ELSE IF obj.type = "Material" /\ obj.name \in Range(MaterialNames)
        THEN {"materials"}
    ELSE IF obj.type = "Texture2D" /\ obj.name \in TextureNameSet
        THEN IF obj.path = << >> THEN {"embedded"} ELSE {obj.path[2]}
    ELSE {}

C26_Classification ==
    cpc = "classified" =>
        /\ \A i \in 1..Len(objects) :
            /\ Holders(i) = ExpectedBucket(objects[i])
            /\ Cardinality(Holders(i)) <= 1
            /\ \A b \in Holders(i) :
                 Cardinality({j \in 1..Len(BucketNamed(b)) :
                                    BucketNamed(b)[j] = i}) = 1
        /\ \A b \in Buckets : Range(BucketNamed(b)) \subseteq 1..Len(objects)
        /\ \A k \in DOMAIN textures_by_ress : textures_by_ress[k] # << >>

\* Two allow-listed textures whose stream paths differ in the directory only
\* have been put into the same group.
C26_Witness ==
    /\ cpc = "classified"
    /\ Len(objects) = 2
    /\ objects[1].path # << >>
    /\ objects[2].path # << >>
    /\ objects[1].path # objects[2].path
    /\ DOMAIN textures_by_ress = {"a.resS"}
    /\ textures_by_ress["a.resS"] = <<1, 2>>

\* ---------------------------------------------------------------------------
\* C27: whatever read_bytes calls and Position assignments came before,
\* save() returns all Length bytes of the stream from its beginning;
\* read_bytes(n) returns the bytes that start at the Position of before the
\* call, as many as asked for and available, and advances Position by the
\* number of bytes it returned.
C27_SaveReturnsWholeStream ==
    /\ w_op = "save" => (w_returned = w_stream /\ Len(w_returned) = Length)
    /\ w_op = "read_bytes" =>
        LET n == Len(w_returned)
            rest == IF w_before >= Length THEN 0 ELSE Length - w_before
        IN  /\ w_position = w_before + n
            /\ n = IF w_arg < 0 \/ w_arg > rest THEN rest ELSE w_arg
            /\ \A j \in 1..n : w_returned[j] = w_stream[w_before + j]

\* save() has been called with Position in the middle of the stream, after a
\* read and an assignment.
C27_Witness ==
    /\ w_op = "save"
    /\ w_calls >= 3
    /\ w_before > 0
    /\ w_before < Length
    /\ w_returned = w_stream

=============================================================================
